---- MODULE Spec2Model ----
(***************************************************************************)
(* A model of CANNON.Solver (src/solver/Solver.js): the constraint         *)
(* accumulator (reset, addConstraint, addNonPenetrationConstraint) and the *)
(* projected Gauss-Seidel sweep of solve, one inner update per step.       *)
(*                                                                         *)
(* Numbers.  A JavaScript number is modelled as a pair <<n, d>>: the exact *)
(* rational n/d (d > 0, lowest terms), or, with d = 0, +Infinity <<1,0>>,  *)
(* -Infinity <<-1,0>> and NaN <<0,0>>.  Double arithmetic is exact on the  *)
(* small values the model draws; a store into a Float32Array rounds to a   *)
(* binary grid of FracBits fractional bits (round to nearest, ties to      *)
(* even), a scaled-down single precision.  Signed zeros are not told       *)
(* apart (no comparison of the program does).                              *)
(***************************************************************************)
EXTENDS Integers, Sequences, FiniteSets, TLC

\* ------------------------------------------------------------ bounds
MaxBodies == 2
MaxConstraints == 2
FracBits == 4

\* ------------------------------------------------------------ numbers
Abs(x) == IF x < 0 THEN -x ELSE x

Sgn(x) == IF x < 0 THEN -1 ELSE IF x > 0 THEN 1 ELSE 0

RECURSIVE Gcd(_, _)
Gcd(x, y) == IF y = 0 THEN x ELSE Gcd(y, x % y)

Norm(n, d) ==
  IF d = 0 THEN <<Sgn(n), 0>>
  ELSE LET g == Gcd(Abs(n), d) IN <<n \div g, d \div g>>

Num(k) == <<k, 1>>
Zero == <<0, 1>>
NaN == <<0, 0>>
PInf == <<1, 0>>

IsFinite(x) == x[2] # 0

Neg(x) == <<-x[1], x[2]>>

Mul(x, y) == Norm(x[1] * y[1], x[2] * y[2])

Add(x, y) ==
  IF IsFinite(x) /\ IsFinite(y) THEN Norm(x[1] * y[2] + y[1] * x[2], x[2] * y[2])
  ELSE IF x = NaN \/ y = NaN THEN NaN
  ELSE IF IsFinite(y) THEN x
  ELSE IF IsFinite(x) THEN y
  ELSE IF x = y THEN x ELSE NaN

Sub(x, y) == Add(x, Neg(y))

\* 1.0 / x
Recip(x) ==
  IF x = NaN THEN NaN
  ELSE IF x[1] = 0 THEN PInf
  ELSE IF x[1] > 0 THEN <<x[2], x[1]>> ELSE <<-x[2], -x[1]>>

\* x < y of JavaScript: false when either side is NaN
Lt(x, y) ==
  /\ x # NaN
  /\ y # NaN
  /\ IF IsFinite(x) \/ IsFinite(y) THEN x[1] * y[2] < y[1] * x[2] ELSE x[1] < y[1]

Gt(x, y) == Lt(y, x)

\* isNaN(x)
isNaN(x) == x = NaN

Pow2(e) == 2 ^ e

\* (variant: a store that truncates toward -Infinity instead of rounding)
FroundFloor(x) ==
  IF ~IsFinite(x) THEN x
  ELSE Norm((x[1] * Pow2(FracBits)) \div x[2], Pow2(FracBits))

\* the value a Float32Array element holds after x is stored into it
Fround(x) ==
  IF ~IsFinite(x) THEN x
  ELSE LET t == x[1] * Pow2(FracBits)
           f == t \div x[2]
           r == t - f * x[2]
           m == IF 2 * r < x[2] THEN f
                ELSE IF 2 * r > x[2] THEN f + 1
                ELSE IF f % 2 = 0 THEN f ELSE f + 1
       IN  Norm(m, Pow2(FracBits))

\* the value an Int16Array element holds after the integer x is stored into it
ToInt16(x) == ((x + 32768) % 65536) - 32768

\* Number('inf'): only the string 'Infinity' parses to Infinity
NumberOfInfString == NaN

\* ------------------------------------------------------------ CANNON.Vec3
\* (the vector class lives outside this file; its four methods used here)
vadd(u, v) == <<Add(u[1], v[1]), Add(u[2], v[2]), Add(u[3], v[3])>>

vsub(u, v) == <<Sub(u[1], v[1]), Sub(u[2], v[2]), Sub(u[3], v[3])>>

dot(u, v) == Add(Add(Mul(u[1], v[1]), Mul(u[2], v[2])), Mul(u[3], v[3]))

cross(u, v) ==
  << Sub(Mul(u[2], v[3]), Mul(u[3], v[2])),
     Sub(Mul(u[3], v[1]), Mul(u[1], v[3])),
     Sub(Mul(u[1], v[2]), Mul(u[2], v[1])) >>

\* ------------------------------------------------------------ typed arrays
\* new Float32Array(len): zero-filled
Float32Zeros(len) == [x \in 1..len |-> Zero]

\* arr[idx] read as a number: an index outside the array reads undefined,
\* which arithmetic turns into NaN
ReadF32(arr, idx) == IF idx \in 0..(Len(arr) - 1) THEN arr[idx + 1] ELSE NaN

\* arr[idx] += x: a store outside a typed array is dropped
AddAt(arr, idx, x) ==
  IF idx \in 0..(Len(arr) - 1) THEN [arr EXCEPT ![idx + 1] = Fround(Add(@, x))]
  ELSE arr

\* ------------------------------------------------------------ the solver object
DefaultIterations == 10

DefaultH == <<1, 60>>

\* (variant: the array is kept when the number of bodies is the same)
ReusedDeltaArray(old, numbodies) ==
  IF Len(old) = numbodies THEN old ELSE Float32Zeros(numbodies)

\* "this.vxlambda = new Float32Array(numbodies)" (old: the array replaced)
NewDeltaArray(old, numbodies) == Float32Zeros(numbodies)

\* reset(numbodies)
ResetFn(s, numbodies) ==
  [ iterations |-> s.iterations, h |-> s.h, a |-> s.a, b |-> s.b,
    eps |-> s.eps, k |-> s.k, d |-> s.d,
    G |-> <<>>, MinvTrace |-> <<>>, Fext |-> <<>>, q |-> <<>>, qdot |-> <<>>,
    n |-> 0,
    upper |-> <<>>, lower |-> <<>>, hasupper |-> <<>>, haslower |-> <<>>,
    i |-> <<>>, j |-> <<>>,
    vxlambda |-> NewDeltaArray(s.vxlambda, numbodies), vylambda |-> NewDeltaArray(s.vylambda, numbodies),
    vzlambda |-> NewDeltaArray(s.vzlambda, numbodies), wxlambda |-> NewDeltaArray(s.wxlambda, numbodies),
    wylambda |-> NewDeltaArray(s.wylambda, numbodies), wzlambda |-> NewDeltaArray(s.wzlambda, numbodies) ]

\* new CANNON.Solver(a, b, eps, k, d, iter, h); iter is an integer, and
\* "iter || 10", "h || 1.0/60.0" take the default for a falsy argument
Construct(a, b, eps, k, d, iter, h) ==
  ResetFn([ iterations |-> IF iter = 0 THEN DefaultIterations ELSE iter,
            h |-> IF h = Zero \/ h = NaN THEN DefaultH ELSE h,
            a |-> a, b |-> b, eps |-> eps, k |-> k, d |-> d,
            vxlambda |-> <<>>, vylambda |-> <<>>, vzlambda |-> <<>>,
            wxlambda |-> <<>>, wylambda |-> <<>>, wzlambda |-> <<>> ], 0)

\* addConstraint(G, MinvTrace, q, qdot, Fext, lower, upper, body_i, body_j):
\* the solver after the call; the call returns its n - 1
AddConstraintFn(s, G, MinvTrace, q, qdot, Fext, lower, upper, body_i, body_j) ==
  [ s EXCEPT
      !.q = @ \o [x \in 1..12 |-> q[x]],
      !.qdot = @ \o [x \in 1..12 |-> qdot[x]],
      !.MinvTrace = @ \o [x \in 1..12 |-> MinvTrace[x]],
      !.G = @ \o [x \in 1..12 |-> G[x]],
      !.Fext = @ \o [x \in 1..12 |-> Fext[x]],
      !.upper = Append(@, upper),
      !.hasupper = Append(@, ~isNaN(upper)),
      !.lower = Append(@, lower),
      !.haslower = Append(@, ~isNaN(lower)),
      !.i = Append(@, body_i),
      !.j = Append(@, body_j),
      !.n = @ + 1 ]

\* (variant: the count is returned instead of the index)
AddConstraintReturnsCount(s) == s.n

AddConstraintReturn(s) == s.n - 1

\* q = ((xj + rj) - (xi + ri)) . ni of addNonPenetrationConstraint
PenetrationQvec(p) == vsub(vadd(p.xj, p.rj), vadd(p.xi, p.ri))

PenetrationQ(p) == dot(PenetrationQvec(p), p.ni)

\* (variant: the guard "q <= 0.0")
PenetratingOrTouching(qq) == Lt(qq, Zero) \/ qq = Zero

\* the guard "q < 0.0"
Penetrating(qq) == Lt(qq, Zero)

\* addNonPenetrationConstraint(i, j, xi, xj, ni, ri, rj, iMi, iMj, iIi, iIj,
\*                             vi, vj, wi, wj, fi, fj, taui, tauj), p its arguments
AddNonPenetrationConstraintFn(s, p) ==
  LET rxn == cross(p.ri, p.ni)
      u == vsub(p.vj, p.vi)
      qvec == PenetrationQvec(p)
      qq == dot(qvec, p.ni)
  IN  IF Penetrating(qq)
      THEN AddConstraintFn(s,
             << Neg(p.ni[1]), Neg(p.ni[2]), Neg(p.ni[3]),
                Neg(rxn[1]), Neg(rxn[2]), Neg(rxn[3]),
                p.ni[1], p.ni[2], p.ni[3],
                rxn[1], rxn[2], rxn[3] >>,
             << p.iMi[1], p.iMi[2], p.iMi[3],
                p.iIi[3], p.iIi[2], p.iIi[3],
                p.iMj[1], p.iMj[2], p.iMj[3],
                p.iIj[3], p.iIj[2], p.iIj[3] >>,
             << Neg(qvec[1]), Neg(qvec[2]), Neg(qvec[3]), Zero, Zero, Zero,
                qvec[1], qvec[2], qvec[3], Zero, Zero, Zero >>,
             << Neg(u[1]), Neg(u[2]), Neg(u[3]), Zero, Zero, Zero,
                u[1], u[2], u[3], Zero, Zero, Zero >>,
             << p.fi[1], p.fi[2], p.fi[3], p.taui[1], p.taui[2], p.taui[3],
                p.fj[1], p.fj[2], p.fj[3], p.tauj[1], p.tauj[2], p.tauj[3] >>,
             Zero,
             NumberOfInfString,
             p.i,
             p.j)
      ELSE s

\* ------------------------------------------------------------ solve
RECURSIVE SumTo(_, _)
SumTo(f, m) == IF m = 0 THEN Zero ELSE Add(SumTo(f, m - 1), f[m])

\* the entry of solve: this.i becomes an Int16Array
SolveEnter(s) == [s EXCEPT !.i = [x \in 1..Len(s.i) |-> ToInt16(s.i[x])]]

\* the locals of solve before its loops (hitLower, hitUpper, before, GuJ and
\* cur record the last inner update for the properties: the two "hit ...
\* bound" events, lambda[l] before the update, the body-j part of Gulambda
\* and l itself)
SolveLocals(s) ==
  [ lambda |-> Float32Zeros(s.n), dlambda |-> Float32Zeros(s.n),
    B |-> Float32Zeros(s.n), c |-> Float32Zeros(s.n),
    precomp |-> [x \in 1..s.n |-> 0],
    G |-> [x \in 1..Len(s.G) |-> Fround(s.G[x])],
    k |-> 0, l |-> 0,
    hitLower |-> FALSE, hitUpper |-> FALSE, before |-> Zero, GuJ |-> Zero,
    cur |-> -1 ]

\* "this.hasupper && ..." tests the array object, which is truthy
ObjectTruthy(obj) == TRUE

\* the constants c[l], B[l] of constraint l (first touch)
Precompute(s, G, l12) ==
  LET G_Minv_Gt == SumTo([x \in 1..12 |-> Mul(Mul(G[l12 + x], s.MinvTrace[l12 + x]), G[l12 + x])], 12)
      Gq == SumTo([x \in 1..12 |-> Mul(G[l12 + x], s.q[l12 + x])], 12)
      GW == SumTo([x \in 1..12 |-> Mul(G[l12 + x], s.qdot[l12 + x])], 12)
      GMinvf == SumTo([x \in 1..12 |-> Mul(Mul(G[l12 + x], s.MinvTrace[l12 + x]), s.Fext[l12 + x])], 12)
  IN  [ c |-> Fround(Recip(Add(G_Minv_Gt, s.eps))),
        B |-> Fround(Sub(Sub(Neg(Mul(s.a, Gq)), Mul(s.b, GW)), Mul(s.h, GMinvf))) ]

\* (variant: one flag for all constraints)
PrecomputedAny(w, l) == \E x \in 1..Len(w.precomp) : w.precomp[x] # 0

\* "precomp[l]": constraint l has its constants
Precomputed(w, l) == w.precomp[l + 1] # 0

\* the six per-body arrays in slot order
DeltaArrays(s) ==
  <<s.vxlambda, s.vylambda, s.vzlambda, s.wxlambda, s.wylambda, s.wzlambda>>

\* (variant: the lower clamp left out)
ClampWithoutLower(lam, dlam, haslower, lower, hasupper, upper) ==
  LET up == hasupper /\ Gt(lam, upper)
  IN  [ lambda |-> IF up THEN Fround(upper) ELSE lam,
        dlambda |-> IF up THEN Fround(Sub(upper, Fround(upper))) ELSE dlam,
        hitLower |-> FALSE, hitUpper |-> up ]

\* (variant: the upper test written "!(lambda[l] <= upper[l])")
ClampNegatedCompare(lam, dlam, haslower, lower, hasupper, upper) ==
  LET lo == haslower /\ Lt(lam, lower)
      lam1 == IF lo THEN Fround(lower) ELSE lam
      dlam1 == IF lo THEN Fround(Sub(lower, lam1)) ELSE dlam
      up == hasupper /\ ~(Lt(lam1, upper) \/ lam1 = upper)
      lam2 == IF up THEN Fround(upper) ELSE lam1
      dlam2 == IF up THEN Fround(Sub(upper, lam2)) ELSE dlam1
  IN  [lambda |-> lam2, dlambda |-> dlam2, hitLower |-> lo, hitUpper |-> up]

\* the clamps of one inner update: lambda[l] and dlambda[l] after them, and
\* which of the two was applied
Clamp(lam, dlam, haslower, lower, hasupper, upper) ==
  LET lo == haslower /\ Lt(lam, lower)
      lam1 == IF lo THEN Fround(lower) ELSE lam
      dlam1 == IF lo THEN Fround(Sub(lower, lam1)) ELSE dlam
      up == hasupper /\ Gt(lam1, upper)
      lam2 == IF up THEN Fround(upper) ELSE lam1
      dlam2 == IF up THEN Fround(Sub(upper, lam2)) ELSE dlam1
  IN  [lambda |-> lam2, dlambda |-> dlam2, hitLower |-> lo, hitUpper |-> up]

\* one pass of the body of the inner loop, for constraint w.l, and the
\* loop counters after it
InnerStep(s, w) ==
  LET l == w.l
      body_i == s.i[l + 1]
      body_j == s.j[l + 1]
      l12 == 12 * l
      pre == IF ~Precomputed(w, l) THEN Precompute(s, w.G, l12)
             ELSE [c |-> w.c[l + 1], B |-> w.B[l + 1]]
      D == DeltaArrays(s)
      GuI == SumTo([x \in 1..6 |-> Mul(w.G[l12 + x], ReadF32(D[x], body_i))], 6)
      GuJ == SumTo([x \in 1..6 |-> Mul(w.G[l12 + 6 + x], ReadF32(D[x], body_j))], 6)
      Gulambda == Add(GuI, GuJ)
      dl0 == Fround(Mul(pre.c, Sub(Sub(pre.B, Gulambda), Mul(s.eps, w.lambda[l + 1]))))
      lam0 == Fround(Add(w.lambda[l + 1], dl0))
      cl == Clamp(lam0, dl0, s.haslower[l + 1], s.lower[l + 1],
                  ObjectTruthy(s.hasupper), s.upper[l + 1])
      dv(x) == Mul(Mul(cl.dlambda, s.MinvTrace[l12 + x]), w.G[l12 + x])
      upd(x) == AddAt(AddAt(D[x], body_i, dv(x)), body_j, dv(6 + x))
      last == l + 1 = s.n
  IN  [ s |-> [s EXCEPT !.vxlambda = upd(1), !.vylambda = upd(2),
                        !.vzlambda = upd(3), !.wxlambda = upd(4),
                        !.wylambda = upd(5), !.wzlambda = upd(6)],
        w |-> [w EXCEPT !.c[l + 1] = pre.c, !.B[l + 1] = pre.B,
                        !.precomp[l + 1] = 1,
                        !.lambda[l + 1] = cl.lambda,
                        !.dlambda[l + 1] = cl.dlambda,
                        !.hitLower = cl.hitLower, !.hitUpper = cl.hitUpper,
                        !.before = w.lambda[l + 1], !.GuJ = GuJ, !.cur = l,
                        !.l = IF last THEN 0 ELSE l + 1,
                        !.k = IF last THEN w.k + 1 ELSE w.k] ]

\* whether the loops of solve have another inner update to run
Looping(s, w) == w.k < s.iterations /\ s.n > 0

\* solve run to its return from the locals w
RECURSIVE RunLoops(_, _)
RunLoops(s, w) ==
  IF Looping(s, w) THEN LET r == InnerStep(s, w) IN RunLoops(r.s, r.w)
  ELSE [s |-> s, w |-> w]

\* solve(): the solver and the locals when it returns
SolveFn(s) == RunLoops(SolveEnter(s), SolveLocals(SolveEnter(s)))

\* ------------------------------------------------------------ the caller
\* solver: the CANNON.Solver object; loc: the locals of a running solve;
\* pc: "idle" (accumulating), "loop" (inside solve), "done" (solve returned);
\* ctor: the constructor's arguments; call: the last call made on the
\* solver; step: the numbodies of the last reset and the add calls since.
\* earlier: whether a solve has returned on this solver before the last reset.
VARIABLES solver, loc, pc, ctor, call, step, earlier

vars == <<solver, loc, pc, ctor, call, step, earlier>>

Call(op, ret, qq) == [op |-> op, ret |-> ret, q |-> qq]

\* no solve is running
NoLocals == [ lambda |-> <<>>, dlambda |-> <<>>, B |-> <<>>, c |-> <<>>,
              precomp |-> <<>>, G |-> <<>>, k |-> 0, l |-> 0,
              hitLower |-> FALSE, hitUpper |-> FALSE, before |-> Zero,
              GuJ |-> Zero, cur |-> -1 ]

\* the state after "new CANNON.Solver(...)"
Constructed(cfg) ==
  /\ ctor = cfg
  /\ solver = Construct(cfg.a, cfg.b, cfg.eps, cfg.k, cfg.d, cfg.iter, cfg.h)
  /\ loc = NoLocals
  /\ pc = "idle"
  /\ call = Call("new", -1, Zero)
  /\ step = [numbodies |-> 0, calls |-> <<>>]
  /\ earlier = FALSE

\* world calls reset(nb) to start a simulation step
DoReset(nb) ==
  /\ pc \in {"idle", "done"}
  /\ solver' = ResetFn(solver, nb)
  /\ loc' = NoLocals
  /\ pc' = "idle"
  /\ call' = Call("reset", -1, Zero)
  /\ step' = [numbodies |-> nb, calls |-> <<>>]
  /\ earlier' = (earlier \/ pc = "done")
  /\ UNCHANGED ctor

\* world calls addConstraint with the row r = [G, MinvTrace, q, qdot, Fext],
\* the bounds and the two body indices
DoAddConstraint(r, lower, upper, body_i, body_j) ==
  /\ pc = "idle"
  /\ Len(step.calls) < MaxConstraints
  /\ solver' = AddConstraintFn(solver, r.G, r.MinvTrace, r.q, r.qdot, r.Fext,
                               lower, upper, body_i, body_j)
  /\ call' = Call("addConstraint", AddConstraintReturn(solver'), Zero)
  /\ step' = [step EXCEPT !.calls = Append(@,
                 [op |-> "addConstraint", r |-> r, lower |-> lower,
                  upper |-> upper, i |-> body_i, j |-> body_j])]
  /\ UNCHANGED <<loc, pc, ctor, earlier>>

\* world calls addNonPenetrationConstraint with the arguments p
DoAddNonPenetrationConstraint(p) ==
  /\ pc = "idle"
  /\ Len(step.calls) < MaxConstraints
  /\ solver' = AddNonPenetrationConstraintFn(solver, p)
  /\ call' = Call("addNonPenetrationConstraint", -1, PenetrationQ(p))
  /\ step' = [step EXCEPT !.calls = Append(@,
                 [op |-> "addNonPenetrationConstraint", p |-> p])]
  /\ UNCHANGED <<loc, pc, ctor, earlier>>

\* world calls solve: the conversions and allocations before the loops
SolveBegin ==
  /\ pc = "idle"
  /\ solver' = SolveEnter(solver)
  /\ loc' = SolveLocals(solver')
  /\ pc' = "loop"
  /\ call' = Call("solve", -1, Zero)
  /\ UNCHANGED <<ctor, step, earlier>>

\* one pass of the inner loop body
SolveInner ==
  /\ pc = "loop"
  /\ Looping(solver, loc)
  /\ LET r == InnerStep(solver, loc) IN solver' = r.s /\ loc' = r.w
  /\ UNCHANGED <<pc, ctor, call, step, earlier>>

\* the loops are over: solve returns
SolveReturn ==
  /\ pc = "loop"
  /\ ~Looping(solver, loc)
  /\ pc' = "done"
  /\ UNCHANGED <<solver, loc, ctor, call, step, earlier>>

\* ------------------------------------------------------------ inputs
Half == <<1, 2>>
Quarter == <<1, 4>>

V12(t) == [x \in 1..12 |-> Num(t[x])]

V3(x, y, z) == <<Num(x), Num(y), Num(z)>>

\* the constructor arguments drawn: SPOOK a, b, eps, (unused) k, d, the
\* iteration count and the time step (0: the default)
Configs ==
  { [a |-> Half, b |-> Half, eps |-> Quarter, k |-> Zero, d |-> Zero,
     iter |-> it, h |-> Zero] : it \in {0, 1, 2} }

\* separation along x, both bodies of unit inverse mass: penetrating (Gq > 0)
RowPush ==
  [ G |-> V12(<<-1,0,0,0,0,0, 1,0,0,0,0,0>>),
    MinvTrace |-> V12(<<1,1,1,1,1,1, 1,1,1,1,1,1>>),
    q |-> V12(<<-1,0,0,0,0,0, 1,0,0,0,0,0>>),
    qdot |-> V12(<<0,0,0,0,0,0, 0,0,0,0,0,0>>),
    Fext |-> V12(<<0,0,0,0,0,0, 0,0,0,0,0,0>>) ]

\* a row with linear and angular parts, a static body i, an approach
\* velocity and an external force
RowPull ==
  [ G |-> [V12(<<0,-1,0,0,0,-1, 0,1,0,0,0,1>>) EXCEPT ![6] = <<-1, 3>>, ![12] = <<1, 3>>],
    MinvTrace |-> V12(<<0,0,0,0,0,0, 1,1,1,2,2,2>>),
    q |-> V12(<<0,1,0,0,0,0, 0,-1,0,0,0,0>>),
    qdot |-> V12(<<0,1,0,0,0,0, 0,-1,0,0,0,0>>),
    Fext |-> V12(<<0,0,0,0,0,0, 0,-30,0,0,0,0>>) ]

\* rows with their (lower, upper): a one-sided constraint, a bilateral one
Inputs == {<<RowPull, Zero, PInf>>, <<RowPush, NaN, NaN>>}

\* body j of a constraint on body i among nb bodies: none, or the next body
BodyJ(body_i, nb) == {-1, (body_i + 1) % nb}

\* contact arguments between bodies 0 and 1, body j's centre at x = xjx:
\* q = xjx - 2
Contact(xjx) ==
  [ i |-> 0, j |-> 1, xi |-> V3(0, 0, 0), xj |-> V3(xjx, 0, 0),
    ni |-> V3(1, 0, 0), ri |-> <<Num(1), Half, Zero>>, rj |-> V3(-1, 0, 0),
    iMi |-> V3(1, 1, 1), iMj |-> V3(1, 1, 1),
    iIi |-> V3(1, 2, 3), iIj |-> V3(3, 2, 1),
    vi |-> V3(1, 0, 0), vj |-> V3(0, 0, 0),
    wi |-> V3(0, 0, 1), wj |-> V3(0, 0, 0),
    fi |-> V3(0, 0, 0), fj |-> V3(0, -30, 0),
    taui |-> V3(0, 0, 0), tauj |-> V3(0, 0, 0) ]

Contacts == {Contact(x) : x \in 1..3}

\* ------------------------------------------------------------ Spec
\* a solver constructed with an explicit iteration count
Init == \E cfg \in Configs : cfg.iter # 0 /\ Constructed(cfg)

\* a solver constructed with any of the iteration counts, 0 included
InitAny == \E cfg \in Configs : Constructed(cfg)

Reset == \E nb \in 0..MaxBodies : DoReset(nb)

AddConstraint ==
  \E c \in Inputs :
    \E body_i \in 0..(step.numbodies - 1) :
      \E body_j \in BodyJ(body_i, step.numbodies) :
        DoAddConstraint(c[1], c[2], c[3], body_i, body_j)

AddNonPenetrationConstraint ==
  /\ step.numbodies >= 2
  /\ \E p \in Contacts : DoAddNonPenetrationConstraint(p)

Next ==
  \/ Reset
  \/ AddConstraint
  \/ AddNonPenetrationConstraint
  \/ SolveBegin
  \/ SolveInner
  \/ SolveReturn

Spec == Init /\ [][Next]_vars
\* ------------------------------------------------------------ SpecClamp
\* two bodies, constraints between body 0 and body 1 under several bounds
RowApart ==
  [RowPush EXCEPT !.q = V12(<<1,0,0,0,0,0, -1,0,0,0,0,0>>)]

SevenSixtyFourths == <<7, 64>>

\* (lower, upper): a contact, an infeasible pair, a ceiling, a pinned value
\* that single precision cannot hold
ClampBounds ==
  { <<Zero, PInf>>, <<Zero, Num(-1)>>, <<NaN, Quarter>>,
    <<SevenSixtyFourths, SevenSixtyFourths>> }

ResetTwo == DoReset(2)

AddBounded ==
  /\ step.numbodies = 2
  /\ \E r \in {RowPush, RowApart}, bd \in ClampBounds :
       DoAddConstraint(r, bd[1], bd[2], 0, 1)

AddContact ==
  /\ step.numbodies = 2
  /\ DoAddNonPenetrationConstraint(Contact(1))

NextClamp ==
  \/ ResetTwo
  \/ AddBounded
  \/ AddContact
  \/ SolveBegin
  \/ SolveInner
  \/ SolveReturn

SpecClamp == InitAny /\ [][NextClamp]_vars

\* ------------------------------------------------------------ SpecAxis
\* one constraint along x between two distinct bodies, all twelve MinvTrace
\* entries equal, lower = 0, upper = +Infinity
AxisG == V12(<<-1,0,0,0,0,0, 1,0,0,0,0,0>>)

AxisRows ==
  { [ G |-> AxisG,
      MinvTrace |-> [x \in 1..12 |-> m],
      q |-> qv, qdot |-> qd, Fext |-> fe ] :
    m \in {Zero, Half, Num(1)},
    qv \in { V12(<<-1,0,0,0,0,0, 1,0,0,0,0,0>>),
             V12(<<1,0,0,0,0,0, -1,0,0,0,0,0>>),
             [V12(<<0,1,0,0,0,0, 0,0,0,0,0,0>>) EXCEPT ![1] = <<1, 3>>] },
    qd \in { V12(<<0,0,0,0,0,0, 0,0,0,0,0,0>>),
             V12(<<1,0,0,0,0,0, -1,0,0,0,0,0>>) },
    fe \in { V12(<<0,0,0,0,0,0, 0,0,0,0,0,0>>),
             V12(<<0,0,0,0,0,0, -30,0,0,0,0,0>>) } }

AxisConfigs ==
  { [a |-> Half, b |-> Half, eps |-> e, k |-> Zero, d |-> Zero,
     iter |-> it, h |-> Zero] : e \in {Quarter, <<1, 3>>}, it \in {0, 1, 2} }

InitAxis == \E cfg \in AxisConfigs : Constructed(cfg)

AddAxis ==
  /\ step.numbodies = 2
  /\ solver.n = 0
  /\ \E r \in AxisRows, body_i \in 0..1 :
       DoAddConstraint(r, Zero, PInf, body_i, 1 - body_i)

NextAxis ==
  \/ ResetTwo
  \/ AddAxis
  \/ SolveBegin
  \/ SolveInner
  \/ SolveReturn

SpecAxis == InitAxis /\ [][NextAxis]_vars

\* ------------------------------------------------------------ SpecPairs
\* constraints over body pairs, disjoint or sharing a body
PairBodies == 4

BodyPairs == {<<0, 1>>, <<2, 3>>, <<1, 2>>}

ResetPairs == DoReset(PairBodies)

AddPair ==
  /\ step.numbodies = PairBodies
  /\ \E c \in Inputs \cup {<<RowApart, Zero, PInf>>}, bp \in BodyPairs :
       DoAddConstraint(c[1], c[2], c[3], bp[1], bp[2])

NextPairs ==
  \/ ResetPairs
  \/ AddPair
  \/ SolveBegin
  \/ SolveInner
  \/ SolveReturn

SpecPairs == InitAny /\ [][NextPairs]_vars

\* ------------------------------------------------------------ properties
AllZero(arr) == \A x \in 1..Len(arr) : arr[x] = Zero

DeltasZero(s) == \A x \in 1..6 : AllZero(DeltaArrays(s)[x])

\* the add calls of a step that appended a constraint
Appending(calls) ==
  { x \in 1..Len(calls) :
      \/ calls[x].op = "addConstraint"
      \/ /\ calls[x].op = "addNonPenetrationConstraint"
         /\ Lt(PenetrationQ(calls[x].p), Zero) }

\* C2: addNonPenetrationConstraint with q >= 0 leaves n and every
\* per-constraint sequence (the whole solver object) unchanged; with q < 0
\* it appends exactly one constraint, with lower = 0 and body indices (i, j).
C2_SkipOnSeparation ==
  [][ call'.op = "addNonPenetrationConstraint" =>
        LET p == step'.calls[Len(step'.calls)].p
        IN  /\ (~Lt(call'.q, Zero) /\ call'.q # NaN) => solver' = solver
            /\ Lt(call'.q, Zero) =>
                 /\ solver'.n = solver.n + 1
                 /\ Len(solver'.G) = Len(solver.G) + 12
                 /\ Len(solver'.lower) = Len(solver.lower) + 1
                 /\ solver'.lower[solver'.n] = Zero
                 /\ solver'.i[solver'.n] = p.i
                 /\ solver'.j[solver'.n] = p.j
                 /\ \A f \in {"G", "MinvTrace", "q", "qdot", "Fext", "lower",
                                "upper", "hasupper", "haslower", "i", "j"} :
                      SubSeq(solver'[f], 1, Len(solver[f])) = solver[f] ]_vars

\* a touching contact (q = 0) was offered to a solver that held one
\* constraint, and it still holds one
C2_Witness ==
  /\ call.op = "addNonPenetrationConstraint"
  /\ call.q = Zero
  /\ solver.n = 1

\* C3: a solver constructed with iterations = 0 has all six per-body delta
\* arrays at zero when solve returns.
C3_ZeroIterationsNoOp == (ctor.iter = 0 /\ pc = "done") => DeltasZero(solver)

\* C4: the five row sequences have length 12 * n, the six per-constraint
\* sequences have length n, n is the number of constraints added since the
\* last reset, and addConstraint returns n - 1, the index of that count.
C4_Lockstep ==
  /\ \A f \in {"G", "MinvTrace", "q", "qdot", "Fext"} : Len(solver[f]) = 12 * solver.n
  /\ \A f \in {"lower", "upper", "hasupper", "haslower", "i", "j"} :
       Len(solver[f]) = solver.n
  /\ solver.n = Cardinality(Appending(step.calls))
  /\ call.op = "addConstraint" => call.ret = Cardinality(Appending(step.calls)) - 1

\* the second addConstraint since a reset returned index 1
C4_Witness ==
  /\ call.op = "addConstraint"
  /\ call.ret = 1
  /\ Len(solver.G) = 24

\* the solver a fresh construction, reset(numbodies) and the add calls of
\* st give, solved
RECURSIVE Replayed(_, _, _)
Replayed(s, calls, m) ==
  IF m = 0 THEN s
  ELSE LET c == calls[m]
           t == Replayed(s, calls, m - 1)
       IN  IF c.op = "addConstraint"
           THEN AddConstraintFn(t, c.r.G, c.r.MinvTrace, c.r.q, c.r.qdot,
                                c.r.Fext, c.lower, c.upper, c.i, c.j)
           ELSE AddNonPenetrationConstraintFn(t, c.p)

Fresh(cfg, numbodies) ==
  ResetFn(Construct(cfg.a, cfg.b, cfg.eps, cfg.k, cfg.d, cfg.iter, cfg.h), numbodies)

FreshStep(cfg, st) ==
  SolveFn(Replayed(Fresh(cfg, st.numbodies), st.calls, Len(st.calls))).s

\* C5: after reset the solver is what a fresh construction and that reset
\* give (n = 0, empty sequences, zero delta arrays of length bodyCount), and
\* when solve returns the six delta arrays are those of the same step run on
\* a freshly constructed solver, whatever steps ran before.
C5_NoStatePersists ==
  /\ call.op = "reset" =>
       /\ solver = Fresh(ctor, step.numbodies)
       /\ solver.n = 0
       /\ \A f \in {"G", "MinvTrace", "q", "qdot", "Fext", "lower", "upper",
                      "hasupper", "haslower", "i", "j"} : solver[f] = <<>>
       /\ \A x \in 1..6 : /\ Len(DeltaArrays(solver)[x]) = step.numbodies
                            /\ AllZero(DeltaArrays(solver)[x])
  /\ (pc = "loop" /\ loc.cur = -1) =>
       (Len(loc.lambda) = solver.n /\ AllZero(loc.lambda))
  /\ pc = "done" => DeltaArrays(solver) = DeltaArrays(FreshStep(ctor, step))

\* a solve returned with non-zero deltas on a solver that had completed an
\* earlier step
C5_Witness ==
  /\ pc = "done"
  /\ earlier
  /\ solver.n = 2
  /\ ~DeltasZero(solver)

\* C6: an inner update of a constraint with bodyIndexJ = -1 reads and writes
\* the delta arrays only inside [0, bodyCount), gets nothing from the body-j
\* slots of Gu, and leaves lambda and body i's deltas numbers.
C6_OneBodyConstraint ==
  \A l \in 0..(solver.n - 1) :
    (pc \in {"loop", "done"} /\ loc.cur = l /\ solver.j[l + 1] = -1) =>
      /\ {solver.i[l + 1], solver.j[l + 1]} \subseteq 0..(step.numbodies - 1)
      /\ loc.GuJ = Zero
      /\ IsFinite(loc.lambda[l + 1])
      /\ \A x \in 1..6 : IsFinite(ReadF32(DeltaArrays(solver)[x], solver.i[l + 1]))
\* x >= y of JavaScript
Ge(x, y) == x # NaN /\ y # NaN /\ ~Lt(x, y)

\* C1 (as claimed): when solve returns, every constraint added with
\* lower = 0 has lambda >= 0, whatever its upper bound.
C1_BoundEnforcement ==
  pc = "done" =>
    \A l \in 1..solver.n : solver.lower[l] = Zero => Ge(loc.lambda[l], Zero)

\* C1 (amended): when solve returns, every constraint added with lower = 0
\* and an upper bound that is absent (NaN, 'inf') or not below 0 has a
\* lambda that is not negative.
C1_BoundEnforcementAmended ==
  pc = "done" =>
    \A l \in 1..solver.n :
      (solver.lower[l] = Zero /\ ~Lt(solver.upper[l], Zero)) => ~Lt(loc.lambda[l], Zero)

\* solve returned right after clamping a contact's lambda (lower = 0, no
\* upper bound) up to 0
C1_Witness ==
  /\ pc = "done"
  /\ loc.cur >= 0
  /\ loc.hitLower
  /\ solver.lower[loc.cur + 1] = Zero
  /\ solver.upper[loc.cur + 1] \in {PInf, NaN}
  /\ loc.lambda[loc.cur + 1] = Zero
  /\ solver.n = 2

\* C9: when a clamp applies in an inner update, the dlambda[l] that goes
\* into the delta arrays is the clamped lambda[l] minus lambda[l] before
\* the update.
C9_ClampedIncrement ==
  (pc \in {"loop", "done"} /\ loc.cur >= 0 /\ (loc.hitLower \/ loc.hitUpper)) =>
    loc.dlambda[loc.cur + 1] = Sub(loc.lambda[loc.cur + 1], loc.before)

\* C10 (as claimed): no inner update applies both clamps, and the upper
\* clamp is applied only where addConstraint recorded an upper bound.
C10_AtMostOneClamp ==
  (pc \in {"loop", "done"} /\ loc.cur >= 0) =>
    /\ ~(loc.hitLower /\ loc.hitUpper)
    /\ loc.hitUpper => solver.hasupper[loc.cur + 1]

\* C10 (amended): no inner update applies both clamps to a constraint whose
\* lower bound, as single precision holds it, is not above its upper bound
\* (or has a bound absent), and the upper clamp is applied only where
\* addConstraint recorded an upper bound.
C10_AtMostOneClampAmended ==
  (pc \in {"loop", "done"} /\ loc.cur >= 0) =>
    /\ ~Gt(Fround(solver.lower[loc.cur + 1]), solver.upper[loc.cur + 1]) =>
         ~(loc.hitLower /\ loc.hitUpper)
    /\ loc.hitUpper => solver.hasupper[loc.cur + 1]

\* an inner update applied the upper clamp alone, to a constraint with a
\* recorded upper bound and no lower bound
C10_Witness ==
  /\ pc = "loop"
  /\ loc.cur >= 0
  /\ loc.hitUpper
  /\ ~loc.hitLower
  /\ solver.hasupper[loc.cur + 1]
  /\ ~solver.haslower[loc.cur + 1]

\* C8: with one x-axis constraint between bodies i and j, equal MinvTrace
\* entries, lower = 0 and upper = +Infinity, after every inner update and
\* at the return vxlambda[i] = -vxlambda[j], every other delta entry is
\* zero and lambda >= 0.
C8_AxisMomentum ==
  (pc \in {"loop", "done"} /\ solver.n = 1) =>
    LET body_i == solver.i[1]
        body_j == solver.j[1]
    IN  /\ solver.vxlambda[body_i + 1] = Neg(solver.vxlambda[body_j + 1])
        /\ \A x \in 2..6 : AllZero(DeltaArrays(solver)[x])
        /\ \A bd \in 0..(Len(solver.vxlambda) - 1) :
             bd \notin {body_i, body_j} => solver.vxlambda[bd + 1] = Zero
        /\ Ge(loc.lambda[1], Zero)

\* solve returned with a positive lambda and opposite non-zero x deltas
\* that needed rounding
C8_Witness ==
  /\ pc = "done"
  /\ solver.n = 1
  /\ Gt(loc.lambda[1], Zero)
  /\ Gt(solver.vxlambda[solver.j[1] + 1], Zero)
  /\ solver.MinvTrace[1] = Half
  /\ loc.k >= 2

\* the deltas of a step of st's bodies holding only the add call c
Alone(cfg, st, c) == DeltaArrays(FreshStep(cfg, [numbodies |-> st.numbodies, calls |-> <<c>>]))

\* C7: two constraints on disjoint body pairs solved together leave the
\* element-wise sum of the deltas each leaves solved alone, in either
\* insertion order; bodies that no constraint names keep zero deltas.
C7_Additivity ==
  (pc = "done" /\ Len(step.calls) = 2) =>
    LET c1 == step.calls[1]
        c2 == step.calls[2]
        D == DeltaArrays(solver)
        D1 == Alone(ctor, step, c1)
        D2 == Alone(ctor, step, c2)
        swapped == DeltaArrays(FreshStep(ctor, [step EXCEPT !.calls = <<c2, c1>>]))
    IN  /\ {c1.i, c1.j} \cap {c2.i, c2.j} = {} =>
             /\ \A x \in 1..6 : \A bd \in 1..step.numbodies :
                  D[x][bd] = Add(D1[x][bd], D2[x][bd])
             /\ D = swapped
        /\ \A x \in 1..6 : \A bd \in 1..step.numbodies :
             (bd - 1) \notin {c1.i, c1.j, c2.i, c2.j} => D[x][bd] = Zero

\* two constraints on the disjoint pairs (0,1) and (2,3) were solved and
\* each moved its own bodies
C7_Witness ==
  /\ pc = "done"
  /\ Len(step.calls) = 2
  /\ {step.calls[1].i, step.calls[1].j} = {0, 1}
  /\ {step.calls[2].i, step.calls[2].j} = {2, 3}
  /\ solver.vxlambda[1] # Zero
  /\ solver.vylambda[4] # Zero
====
